---- MODULE Spec2Model ----
(***************************************************************************)
(* A model of the term collector: the sliding-window RateLimiter, the      *)
(* batch functions get_terms_from_collection and get_terms_pairs of        *)
(* code/collectData.py, and the offline deriver create_term_pairs of       *)
(* code/termsFromRawData.py.                                               *)
(*                                                                         *)
(* Time is counted in ticks, TicksPerSecond of them to the second.  A term *)
(* string is modelled by its rank in the sort order of strings (1 sorts    *)
(* before 2), an object identifier by a record [kind, n]: the integer n or *)
(* the string that spells n.  An optional value is a sequence of length 0  *)
(* or 1.                                                                   *)
(***************************************************************************)
EXTENDS Integers, Sequences, FiniteSets, TLC

VARIABLES
    clock,        \* datetime.now(), in ticks
    calls_made,   \* RateLimiter.calls_made
    returned,     \* the clock at each return of wait_if_necessary, in call order
    pc,           \* the statement the running batch function is at
    args,         \* the arguments of the running call
    dirs,         \* the directories that exist
    listing,      \* the upstream's answer to the collection request, once given
    upstream,     \* the upstream's answer per object URL, once given
    requests,     \* the GET requests issued so far
    objectIDs,    \* local objectIDs
    idx,          \* position of the for loop in objectIDs
    object_terms, \* local object_terms of the last iteration
    terms,        \* local terms of get_terms_pairs
    terms_dict,   \* local terms_dict of get_terms_from_collection
    none_count,   \* local none_count
    raised,       \* the exception that ended the call, or NoError
    files,        \* the content of each output file, when written
    run           \* which call of the replay scenario is running

vars == <<clock, calls_made, returned, pc, args, dirs, listing, upstream,
          requests, objectIDs, idx, object_terms, terms, terms_dict,
          none_count, raised, files, run>>

\* ------------------------------------------------------------- bounds
TicksPerSecond == 4
MaxTime == 8
MaxCalls == 5
RequestTicks == 1
MaxTags == 2
MaxIds == 3
ReplayMaxIds == 2

\* RateLimiter(calls_per_second=2.0)
calls_per_second == 2

\* ------------------------------------------------------------- values
None == "None"
NoError == "none"

\* Two term strings, by sort rank, and the digits of two object identifiers.
Terms == {1, 2}
ObjectNumbers == {1, 2}

RECURSIVE SeqsUpTo(_, _)
SeqsUpTo(S, n) ==
    IF n = 0 THEN {<<>>}
    ELSE LET shorter == SeqsUpTo(S, n - 1)
         IN  shorter \cup {Append(s, x) : s \in {t \in shorter : Len(t) = n - 1}, x \in S}

IntID(n) == [kind |-> "int", n |-> n]
StrID(n) == [kind |-> "str", n |-> n]

\* What the object endpoint can answer: a non-success status, a body that is
\* not JSON, a body without "tags", "tags": null, a tag without "term", or a
\* tags array carrying the given terms.
FailureKinds == {"http_error", "decode_error", "no_tags", "tags_null", "no_term"}

Responses(maxTags) ==
    {[kind |-> k, terms |-> <<>>] : k \in FailureKinds}
        \cup {[kind |-> "ok", terms |-> t] : t \in SeqsUpTo(Terms, maxTags)}

\* What the collection endpoint can answer.
Listings(ids, maxIds) ==
    {[kind |-> k, objectIDs |-> <<>>] : k \in {"http_error", "decode_error", "no_key"}}
        \cup {[kind |-> "ok", objectIDs |-> s] : s \in SeqsUpTo(ids, maxIds)}

\* ------------------------------------------------------- RateLimiter
RECURSIVE popleft_old(_, _)
popleft_old(q, now) ==
    IF q # <<>> /\ now - Head(q) > TicksPerSecond
    THEN popleft_old(Tail(q), now)
    ELSE q

sleep_time(q, now) ==
    IF Len(q) >= calls_per_second
    THEN Head(q) + TicksPerSecond - now
    ELSE 0

wait_if_necessary(q, now) ==
    LET kept == popleft_old(q, now)
        s    == sleep_time(kept, now)
    IN  [calls_made |-> Append(kept, now),
         clock      |-> IF s > 0 THEN now + s ELSE now]

\* ------------------------------------------------------ output paths
RawJson == "data/terms.json"
PairsJson == "data/pairs.json"
PairsCsv == "data/pairs.csv"
DerivedCsv == "data/derived.csv"
DefaultReport == "report.txt"
DataReport == "data/report.txt"

Paths == {RawJson, PairsJson, PairsCsv, DerivedCsv, DefaultReport, DataReport}

\* os.path.dirname(os.path.abspath(filepath))
Dir(filepath) == IF filepath = DefaultReport THEN "." ELSE "data"

AllDirs == {".", "data"}

\* validate_paths; answers are the user's replies to the prompts, in order.
RECURSIVE validate_paths(_, _, _)
validate_paths(filepaths, d, answers) ==
    IF filepaths = <<>> THEN [raised |-> NoError, dirs |-> d]
    ELSE LET filepath == Head(filepaths)
         IN  IF filepath = None
             THEN [raised |-> "TypeError", dirs |-> d]
             ELSE IF Dir(filepath) \in d
             THEN validate_paths(Tail(filepaths), d, answers)
             ELSE IF Head(answers) = "y"
             THEN validate_paths(Tail(filepaths), d \cup {Dir(filepath)}, Tail(answers))
             ELSE [raised |-> "FileNotFoundError", dirs |-> d]

\* ------------------------------------------------------- API client
\* get_api_data on the upstream's answer r: the decoded body, or Exception.
get_api_data(r) ==
    IF r.kind \in {"http_error", "decode_error"}
    THEN [raised |-> "Exception", data |-> r]
    ELSE [raised |-> NoError, data |-> r]

\* str(objectID)
str(objectID) == StrID(objectID.n)

\* The URL f"{endpoint}/{objectID}" of an object, named by the digits it ends in.
ObjectUrl(objectID) == str(objectID).n

\* get_object_ids; limit 0 stands for None (both are falsy).
get_object_ids(r, limit) ==
    LET got == get_api_data(r)
        ids == IF got.data.kind = "ok" THEN got.data.objectIDs ELSE <<>>
    IN  IF got.raised # NoError THEN [raised |-> got.raised, objectIDs |-> <<>>]
        ELSE [raised |-> NoError,
              objectIDs |-> IF limit # 0 /\ limit < Len(ids)
                            THEN SubSeq(ids, 1, limit) ELSE ids]

\* --------------------------------------------------- term extraction
\* itertools.combinations(terms, 2) as {"Source", "Target"} rows
PairsFrom(t, i) ==
    [j \in 1..(Len(t) - i) |-> [Source |-> t[i], Target |-> t[i + j]]]

RECURSIVE CombinationsFrom(_, _)
CombinationsFrom(t, i) ==
    IF i >= Len(t) THEN <<>> ELSE PairsFrom(t, i) \o CombinationsFrom(t, i + 1)

combinations(t) == CombinationsFrom(t, 1)

\* get_terms_from_endpoint on the upstream's answer r: the exception raised,
\* or the value returned (isNone: the function fell off its end).
get_terms_from_endpoint(r, return_full_list) ==
    LET got == get_api_data(r)
    IN  CASE got.raised # NoError ->
               [raised |-> got.raised, isNone |-> FALSE, value |-> <<>>]
          [] got.raised = NoError /\ r.kind \in {"no_tags", "no_term"} ->
               [raised |-> "KeyError", isNone |-> FALSE, value |-> <<>>]
          [] got.raised = NoError /\ r.kind = "tags_null" ->
               [raised |-> "TypeError", isNone |-> FALSE, value |-> <<>>]
          [] OTHER ->
               IF return_full_list
               THEN [raised |-> NoError, isNone |-> FALSE, value |-> r.terms]
               ELSE IF Len(r.terms) > 1
               THEN [raised |-> NoError, isNone |-> FALSE, value |-> combinations(r.terms)]
               ELSE [raised |-> NoError, isNone |-> TRUE, value |-> <<>>]

\* A faulty variant: an empty result is returned as a success.
process_object_terms_empty_ok(r, return_full_list) ==
    LET got == get_terms_from_endpoint(r, return_full_list)
    IN  IF got.raised # NoError
        THEN [object_terms |-> <<>>, success |-> FALSE, raised |-> NoError]
        ELSE [object_terms |-> got.value, success |-> TRUE, raised |-> NoError]

\* A faulty variant: the handler catches the API client's Exception only as raised by
\* get_api_data, and a KeyError or TypeError escapes.
process_object_terms_reraise(r, return_full_list) ==
    LET got == get_terms_from_endpoint(r, return_full_list)
    IN  IF got.raised \in {"KeyError", "TypeError"}
        THEN [object_terms |-> <<>>, success |-> FALSE, raised |-> got.raised]
        ELSE IF got.raised = NoError /\ ~got.isNone /\ got.value # <<>>
        THEN [object_terms |-> got.value, success |-> TRUE, raised |-> NoError]
        ELSE [object_terms |-> <<>>, success |-> FALSE, raised |-> NoError]

\* process_object_terms: (object_terms, success); raised is what escapes it.
process_object_terms(r, return_full_list) ==
    LET got == get_terms_from_endpoint(r, return_full_list)
    IN  IF got.raised # NoError
        THEN [object_terms |-> <<>>, success |-> FALSE, raised |-> NoError]
        ELSE IF ~got.isNone /\ got.value # <<>>
        THEN [object_terms |-> got.value, success |-> TRUE, raised |-> NoError]
        ELSE [object_terms |-> <<>>, success |-> FALSE, raised |-> NoError]

\* ------------------------------------------------------ dict and JSON
\* A dict is the sequence of its [key, value] items in insertion order.
HasKey(d, k) == \E i \in DOMAIN d : d[i].key = k

\* d[k] = v
DictSet(d, k, v) ==
    IF HasKey(d, k)
    THEN [i \in DOMAIN d |-> IF d[i].key = k THEN [key |-> k, value |-> v] ELSE d[i]]
    ELSE Append(d, [key |-> k, value |-> v])

\* json.dump: a dict's keys are written as strings, a list as it is.
json_dump(t) ==
    IF t.type = "dict"
    THEN [type |-> "object",
          items |-> [i \in DOMAIN t.items |->
                        [key |-> str(t.items[i].key), value |-> t.items[i].value]]]
    ELSE [type |-> "array", items |-> t.items]

\* json.load of an object: a repeated key keeps its last value.
RECURSIVE LoadItems(_, _)
LoadItems(items, d) ==
    IF items = <<>> THEN d
    ELSE LoadItems(Tail(items), DictSet(d, Head(items).key, Head(items).value))

json_load(content) == LoadItems(content.items, <<>>)

\* ------------------------------------------------ aggregation and sink
KeyOf(row) == <<row.Source, row.Target>>

KeyLeq(a, b) == a[1] < b[1] \/ (a[1] = b[1] /\ a[2] <= b[2])

RECURSIVE SortedKeys(_)
SortedKeys(S) ==
    IF S = {} THEN <<>>
    ELSE LET least == CHOOSE k \in S : \A o \in S : KeyLeq(k, o)
         IN  <<least>> \o SortedKeys(S \ {least})

\* df.groupby(["Source", "Target"]).size().reset_index(name="Weight")
groupby_size(rows) ==
    LET keys == SortedKeys({KeyOf(rows[i]) : i \in DOMAIN rows})
    IN  [n \in DOMAIN keys |->
            [Source |-> keys[n][1], Target |-> keys[n][2],
             Weight |-> Cardinality({i \in DOMAIN rows : KeyOf(rows[i]) = keys[n]})]]

\* The report's three lines.
report_text(t, total_objects, failed) ==
    [total_objects |-> total_objects, total_terms |-> Len(t.items),
     failed_requests |-> failed]

WriteIf(f, cond, path, content) ==
    IF cond THEN [f EXCEPT ![path] = <<content>>] ELSE f

\* save_results, on the files f: the files after it.
save_results(t, save_csv, save_file, report, report_file, total_objects, failed, return_full_list, f) ==
    LET f1 == WriteIf(f, save_csv # None /\ ~return_full_list /\ t.items # <<>>,
                      save_csv, groupby_size(t.items))
        f2 == WriteIf(f1, save_file # None, save_file, json_dump(t))
    IN  WriteIf(f2, report, report_file, report_text(t, total_objects, failed))

\* ----------------------------------------------- offline pair deriver
\* A faulty variant: pairs are made only of objects with more than two terms.
RECURSIVE raw_to_terms_list_over_two(_)
raw_to_terms_list_over_two(items) ==
    IF items = <<>> THEN <<>>
    ELSE (IF Len(Head(items).value) > 2 THEN combinations(Head(items).value) ELSE <<>>)
             \o raw_to_terms_list_over_two(Tail(items))

\* The loop of create_term_pairs over the items of the loaded mapping.
RECURSIVE raw_to_terms_list(_)
raw_to_terms_list(items) ==
    IF items = <<>> THEN <<>>
    ELSE (IF Len(Head(items).value) > 1 THEN combinations(Head(items).value) ELSE <<>>)
             \o raw_to_terms_list(Tail(items))

\* create_term_pairs, on the files f: the exception it ends with and the files after it.
create_term_pairs(raw_terms_file, processed_terms_file, f) ==
    IF f[raw_terms_file] = <<>>
    THEN [raised |-> "FileNotFoundError", files |-> f]
    ELSE LET content == f[raw_terms_file][1]
         IN  IF content.type # "object"
             THEN [raised |-> "AttributeError", files |-> f]
             ELSE LET terms_list == raw_to_terms_list(json_load(content))
                  IN  IF Len(terms_list) > 0
                      THEN [raised |-> NoError,
                            files |-> [f EXCEPT ![processed_terms_file] =
                                          <<groupby_size(terms_list)>>]]
                      ELSE [raised |-> "UnboundLocalError", files |-> f]

\* ------------------------------------------------- batch orchestrator
Collection == "get_terms_from_collection"
PairsFunc == "get_terms_pairs"

\* A faulty order: the collection is listed before object_endpoint is checked.
StepAfter_listing_first(p) ==
    CASE p = "validate" -> "listing"
      [] p = "listing" -> "check_endpoint"
      [] p = "check_endpoint" -> "loop"

\* The order of the statements of a batch function before its loop.
StepAfter(p) ==
    CASE p = "validate" -> "check_endpoint"
      [] p = "check_endpoint" -> "listing"
      [] p = "listing" -> "loop"

\* A faulty loop body: the else branch that counts a failed object is missing.
loop_body_no_else(func, acc, objectID, p) ==
    IF p.success
    THEN IF func = Collection
         THEN [acc EXCEPT !.terms_dict = DictSet(acc.terms_dict, objectID, p.object_terms)]
         ELSE [acc EXCEPT !.terms = acc.terms \o p.object_terms]
    ELSE acc

\* The body of the for loop after process_object_terms returned p.
loop_body(func, acc, objectID, p) ==
    IF p.success
    THEN IF func = Collection
         THEN [acc EXCEPT !.terms_dict = DictSet(acc.terms_dict, objectID, p.object_terms)]
         ELSE [acc EXCEPT !.terms = acc.terms \o p.object_terms]
    ELSE [acc EXCEPT !.none_count = acc.none_count + 1]

\* The result handed to save_results: terms_dict or terms.
Result(func, acc) ==
    IF func = Collection
    THEN [type |-> "dict", items |-> acc.terms_dict]
    ELSE [type |-> "list", items |-> acc.terms]

Acc == [terms |-> terms, terms_dict |-> terms_dict, none_count |-> none_count]

\* ------------------------------------------------------ initial states
NoArgs ==
    [func |-> Collection, return_full_list |-> TRUE, object_endpoint |-> None,
     save_file |-> None, save_csv |-> None, report |-> FALSE,
     report_file |-> DefaultReport, limit |-> 0]

Idle ==
    /\ clock = 0
    /\ calls_made = <<>>
    /\ returned = <<>>
    /\ args = NoArgs
    /\ dirs = {"."}
    /\ listing = <<>>
    /\ upstream = [u \in ObjectNumbers |-> <<>>]
    /\ requests = <<>>
    /\ objectIDs = <<>>
    /\ idx = 1
    /\ object_terms = <<>>
    /\ terms = <<>>
    /\ terms_dict = <<>>
    /\ none_count = 0
    /\ raised = NoError
    /\ files = [f \in Paths |-> <<>>]
    /\ run = 1

Init == Idle /\ pc = "idle"

\* The calls of a batch function the model makes.  get_terms_from_collection
\* hands return_full_list=True to the functions it calls.
ArgSets ==
    {[func |-> f, return_full_list |-> full, object_endpoint |-> e,
      save_file |-> sf, save_csv |-> sc, report |-> r, report_file |-> rf,
      limit |-> l] :
        f \in {Collection, PairsFunc}, full \in BOOLEAN,
        e \in {None, "objects"}, sf \in {None, RawJson, PairsJson},
        sc \in {None, PairsCsv}, r \in BOOLEAN,
        rf \in {DefaultReport, DataReport}, l \in {0, 1}}

BatchArgs ==
    {a \in ArgSets :
        /\ a.func = Collection => a.return_full_list /\ a.save_file # PairsJson
        /\ a.func = PairsFunc => a.save_file # RawJson}

BatchIDs == {IntID(n) : n \in ObjectNumbers}

\* ------------------------------------------------------------- actions
Call ==
    /\ pc = "idle"
    /\ \E a \in BatchArgs, d \in {{"."}, AllDirs} :
          /\ args' = a
          /\ dirs' = d
    /\ pc' = "validate"
    /\ UNCHANGED <<clock, calls_made, returned, listing, upstream, requests,
                   objectIDs, idx, object_terms, terms, terms_dict, none_count,
                   raised, files, run>>

Validate ==
    /\ pc = "validate"
    /\ \E answers \in [1..3 -> {"y", "n"}] :
          LET v == validate_paths(<<args.save_file, args.save_csv, args.report_file>>,
                                  dirs, answers)
          IN  /\ dirs' = v.dirs
              /\ raised' = v.raised
              /\ pc' = IF v.raised # NoError THEN "raised" ELSE StepAfter("validate")
    /\ UNCHANGED <<clock, calls_made, returned, args, listing, upstream, requests,
                   objectIDs, idx, object_terms, terms, terms_dict, none_count,
                   files, run>>

CheckEndpoint ==
    /\ pc = "check_endpoint"
    /\ raised' = IF args.object_endpoint = None THEN "ValueError" ELSE NoError
    /\ pc' = IF args.object_endpoint = None THEN "raised" ELSE StepAfter("check_endpoint")
    /\ UNCHANGED <<clock, calls_made, returned, args, dirs, listing, upstream,
                   requests, objectIDs, idx, object_terms, terms, terms_dict,
                   none_count, files, run>>

Listing ==
    /\ pc = "listing"
    /\ \E r \in (IF listing = <<>> THEN Listings(BatchIDs, MaxIds) ELSE {listing[1]}) :
          LET got == get_object_ids(r, args.limit)
          IN  /\ listing' = <<r>>
              /\ raised' = got.raised
              /\ objectIDs' = got.objectIDs
              /\ pc' = IF got.raised # NoError THEN "raised"
                       ELSE IF got.objectIDs = <<>> THEN "done"
                       ELSE StepAfter("listing")
    /\ requests' = Append(requests, [endpoint |-> "collection", id |-> 0])
    /\ calls_made' = <<>>
    /\ clock' = clock + RequestTicks
    /\ idx' = 1
    /\ terms' = <<>>
    /\ terms_dict' = <<>>
    /\ none_count' = 0
    /\ UNCHANGED <<returned, args, dirs, upstream, object_terms, files, run>>

LoopStep ==
    /\ pc = "loop"
    /\ idx <= Len(objectIDs)
    /\ LET objectID == objectIDs[idx]
           u == ObjectUrl(objectID)
           w == wait_if_necessary(calls_made, clock)
       IN  /\ calls_made' = w.calls_made
           /\ returned' = Append(returned, w.clock)
           /\ clock' = w.clock + RequestTicks
           /\ requests' = Append(requests, [endpoint |-> "object", id |-> u])
           /\ \E r \in (IF upstream[u] = <<>> THEN Responses(MaxTags) ELSE {upstream[u][1]}) :
                 LET p == process_object_terms(r, args.return_full_list)
                     acc == loop_body(args.func, Acc, objectID, p)
                 IN  /\ upstream' = [upstream EXCEPT ![u] = <<r>>]
                     /\ IF p.raised # NoError
                        THEN /\ raised' = p.raised
                             /\ pc' = "raised"
                             /\ UNCHANGED <<idx, object_terms, terms, terms_dict, none_count>>
                        ELSE /\ object_terms' = p.object_terms
                             /\ terms' = acc.terms
                             /\ terms_dict' = acc.terms_dict
                             /\ none_count' = acc.none_count
                             /\ idx' = idx + 1
                             /\ UNCHANGED <<raised, pc>>
    /\ UNCHANGED <<args, dirs, listing, objectIDs, files, run>>

Save ==
    /\ pc = "loop"
    /\ idx > Len(objectIDs)
    /\ files' = save_results(Result(args.func, Acc), args.save_csv, args.save_file,
                             args.report, args.report_file, Len(objectIDs),
                             none_count, args.return_full_list, files)
    /\ pc' = "done"
    /\ UNCHANGED <<clock, calls_made, returned, args, dirs, listing, upstream,
                   requests, objectIDs, idx, object_terms, terms, terms_dict,
                   none_count, raised, run>>

Next == Call \/ Validate \/ CheckEndpoint \/ Listing \/ LoopStep \/ Save

Spec == Init /\ [][Next]_vars

\* ------------------------------------- the rate limiter's single caller
InitLimiter == Idle /\ pc = "limiter"

\* Time passes between two calls.
Tick ==
    /\ pc = "limiter"
    /\ clock < MaxTime
    /\ clock' = clock + 1
    /\ UNCHANGED <<calls_made, returned, pc, args, dirs, listing, upstream,
                   requests, objectIDs, idx, object_terms, terms, terms_dict,
                   none_count, raised, files, run>>

\* rate_limiter.wait_if_necessary(), to its return.  The single caller makes a
\* call at an instant later than the return of its last one.
LimiterCall ==
    /\ pc = "limiter"
    /\ Len(returned) < MaxCalls
    /\ returned # <<>> => clock > returned[Len(returned)]
    /\ LET w == wait_if_necessary(calls_made, clock)
       IN  /\ calls_made' = w.calls_made
           /\ clock' = w.clock
           /\ returned' = Append(returned, w.clock)
    /\ UNCHANGED <<pc, args, dirs, listing, upstream, requests, objectIDs, idx,
                   object_terms, terms, terms_dict, none_count, raised, files, run>>

NextLimiter == Tick \/ LimiterCall

SpecLimiter == InitLimiter /\ [][NextLimiter]_vars

\* ------------- raw batch, then pairs batch, then the offline deriver
\* collectRawData.py's call, with the destinations validate_paths needs.
RawArgs(l) ==
    [func |-> Collection, return_full_list |-> TRUE, object_endpoint |-> "objects",
     save_file |-> RawJson, save_csv |-> PairsCsv, report |-> FALSE,
     report_file |-> DefaultReport, limit |-> l]

\* collectTermPairs.py's call.
PairsArgs(l) ==
    [func |-> PairsFunc, return_full_list |-> FALSE, object_endpoint |-> "objects",
     save_file |-> PairsJson, save_csv |-> PairsCsv, report |-> FALSE,
     report_file |-> DefaultReport, limit |-> l]

ReplayIDs == BatchIDs \cup {StrID(1)}

InitReplay ==
    /\ clock = 0
    /\ calls_made = <<>>
    /\ returned = <<>>
    /\ pc = "validate"
    /\ args \in {RawArgs(l) : l \in {0, 1}}
    /\ dirs = AllDirs
    /\ listing \in {<<r>> : r \in Listings(ReplayIDs, ReplayMaxIds)}
    /\ upstream \in [ObjectNumbers -> {<<r>> : r \in Responses(MaxTags)}]
    /\ requests = <<>>
    /\ objectIDs = <<>>
    /\ idx = 1
    /\ object_terms = <<>>
    /\ terms = <<>>
    /\ terms_dict = <<>>
    /\ none_count = 0
    /\ raised = NoError
    /\ files = [f \in Paths |-> <<>>]
    /\ run = 1

\* The first script has ended; the second one starts.
SecondCall ==
    /\ run = 1
    /\ pc \in {"done", "raised"}
    /\ run' = 2
    /\ pc' = "validate"
    /\ args' = PairsArgs(args.limit)
    /\ raised' = NoError
    /\ objectIDs' = <<>>
    /\ idx' = 1
    /\ object_terms' = <<>>
    /\ terms' = <<>>
    /\ terms_dict' = <<>>
    /\ none_count' = 0
    /\ UNCHANGED <<clock, calls_made, returned, dirs, listing, upstream, requests, files>>

\* termsFromRawData.py, run on the first script's dump.
Derive ==
    /\ run = 2
    /\ pc \in {"done", "raised"}
    /\ LET c == create_term_pairs(RawJson, DerivedCsv, files)
       IN  /\ files' = c.files
           /\ raised' = c.raised
    /\ run' = 3
    /\ pc' = "derived"
    /\ UNCHANGED <<clock, calls_made, returned, args, dirs, listing, upstream,
                   requests, objectIDs, idx, object_terms, terms, terms_dict,
                   none_count>>

NextReplay ==
    Validate \/ CheckEndpoint \/ Listing \/ LoopStep \/ Save \/ SecondCall \/ Derive

SpecReplay == InitReplay /\ [][NextReplay]_vars

\* ------------------------------------------- vocabulary of the claims
\* The upstream's answer for the object at position i of objectIDs.
ResponseAt(i) == upstream[ObjectUrl(objectIDs[i])][1]

PairsMode == args.func = PairsFunc /\ ~args.return_full_list

\* The object's fetch succeeds and it carries enough terms to give a result.
Yields(r, full) ==
    /\ r.kind = "ok"
    /\ IF full THEN Len(r.terms) >= 1 ELSE Len(r.terms) >= 2

Distinct(s) == \A i, j \in DOMAIN s : i # j => s[i] # s[j]

StrDistinct(s) == \A i, j \in DOMAIN s : i # j => str(s[i]) # str(s[j])

Unordered(row) == {row.Source, row.Target}

\* The GET requests to the object endpoint, in the order issued.
ObjectRequests == SelectSeq(requests, LAMBDA q : q.endpoint = "object")

RECURSIVE SumLens(_)
SumLens(items) ==
    IF items = <<>> THEN 0 ELSE Len(Head(items).value) + SumLens(Tail(items))

\* What a batch is to have accumulated from the first n objects.
RECURSIVE ExpectedTerms(_)
ExpectedTerms(n) ==
    IF n = 0 THEN <<>>
    ELSE ExpectedTerms(n - 1) \o
            (IF ~Yields(ResponseAt(n), args.return_full_list) THEN <<>>
             ELSE IF args.return_full_list THEN ResponseAt(n).terms
             ELSE combinations(ResponseAt(n).terms))

Processed == 1..(idx - 1)

InBatch == pc \in {"loop", "done"} /\ objectIDs # <<>>

\* ------------------------------------------------------------- claims

\* C1 (as claimed): in every 1-second window [t, t + 1s), at most
\* calls_per_second calls of wait_if_necessary return.
C1_WindowLimit ==
    \A t \in 0..(MaxTime + TicksPerSecond) :
        Cardinality({i \in DOMAIN returned :
                        t <= returned[i] /\ returned[i] < t + TicksPerSecond})
            <= calls_per_second

\* C2 (as claimed): after a batch run, successful objects + none_count is the
\* number of identifiers; in raw mode the successful objects are the entries
\* of the returned mapping.
C2_Original ==
    pc = "done" =>
        IF args.func = Collection
        THEN Len(terms_dict) + none_count = Len(objectIDs)
        ELSE Cardinality({i \in DOMAIN objectIDs :
                             Yields(ResponseAt(i), args.return_full_list)})
                 + none_count = Len(objectIDs)

\* C2 (amended): the same, in raw mode for lists of pairwise distinct
\* identifiers only.
C2_Counts ==
    pc = "done" =>
        IF args.func = Collection
        THEN Distinct(objectIDs) => Len(terms_dict) + none_count = Len(objectIDs)
        ELSE Cardinality({i \in DOMAIN objectIDs :
                             Yields(ResponseAt(i), args.return_full_list)})
                 + none_count = Len(objectIDs)

\* C2 (reached): a finished raw batch over distinct identifiers, some of them
\* successful and some failed.
C2_Witness ==
    /\ pc = "done"
    /\ args.func = Collection
    /\ Distinct(objectIDs)
    /\ Len(terms_dict) >= 1
    /\ none_count >= 1

\* The loop step that handles, in pairs mode, an object fetched with 0 or 1 terms.
FewTermsStep ==
    /\ pc = "loop"
    /\ idx <= Len(objectIDs)
    /\ PairsMode
    /\ idx' = idx + 1
    /\ upstream'[ObjectUrl(objectIDs[idx])][1].kind = "ok"
    /\ Len(upstream'[ObjectUrl(objectIDs[idx])][1].terms) <= 1

\* C3 (as claimed): in pairs mode an object with 0 or 1 terms adds no pair and
\* leaves none_count as it is.
C3_Original ==
    [][FewTermsStep => terms' = terms /\ none_count' = none_count]_vars

\* C3 (amended): in pairs mode an object with 0 or 1 terms adds no pair and
\* raises none_count by one.
C3_FewTermsCounted ==
    [][FewTermsStep => terms' = terms /\ none_count' = none_count + 1]_vars

\* C3 (reached): a pairs batch has just handled an object with 0 or 1 terms.
C3_Witness ==
    /\ pc = "loop"
    /\ PairsMode
    /\ idx > 1
    /\ ResponseAt(idx - 1).kind = "ok"
    /\ Len(ResponseAt(idx - 1).terms) <= 1
    /\ none_count >= 1

\* C4 (as claimed): for an object with two or more term entries, pairs mode
\* returns exactly the unordered pairs of its terms: the two members of a
\* pair differ and no unordered pair is returned twice.
C4_PairsOfDistinctTerms ==
    (InBatch /\ PairsMode /\ idx > 1 /\ ResponseAt(idx - 1).kind = "ok"
        /\ Len(ResponseAt(idx - 1).terms) >= 2) =>
        LET t == ResponseAt(idx - 1).terms
            termset == {t[i] : i \in DOMAIN t}
        IN  /\ \A i \in DOMAIN object_terms :
                   object_terms[i].Source # object_terms[i].Target
            /\ \A i, j \in DOMAIN object_terms :
                   i # j => Unordered(object_terms[i]) # Unordered(object_terms[j])
            /\ {Unordered(object_terms[i]) : i \in DOMAIN object_terms}
                   = {{a, b} : a, b \in termset} \ {{a} : a \in termset}

\* C5 (as claimed): the edge table has one row per unordered pair, whose
\* Weight counts every occurrence of the pair in either member order, and
\* never a row (A, B) beside a row (B, A).
C5_UnorderedEdges ==
    files[PairsCsv] # <<>> =>
        LET table == files[PairsCsv][1]
        IN  /\ \A i, j \in DOMAIN table :
                   i # j => ~(/\ table[i].Source = table[j].Target
                              /\ table[i].Target = table[j].Source)
            /\ \A i \in DOMAIN table :
                   table[i].Weight =
                       Cardinality({k \in DOMAIN terms :
                                       Unordered(terms[k]) = Unordered(table[i])})

\* C6 (as claimed): the edge table create_term_pairs derives from the raw
\* dump is the edge table the pairs batch writes for the same identifiers
\* and responses.
C6_Original ==
    run = 3 => files[DerivedCsv] = files[PairsCsv]

\* C6 (amended): the same, for lists of identifiers whose string forms are
\* pairwise distinct.
C6_SameEdgeTable ==
    (run = 3 /\ StrDistinct(objectIDs)) => files[DerivedCsv] = files[PairsCsv]

\* C6 (reached): the deriver has written a table with an edge of weight 2 or
\* more from a dump of two or more identifiers with distinct string forms.
C6_Witness ==
    /\ run = 3
    /\ StrDistinct(objectIDs)
    /\ Len(objectIDs) >= 2
    /\ files[DerivedCsv] # <<>>
    /\ \E i \in DOMAIN files[DerivedCsv][1] : files[DerivedCsv][1][i].Weight >= 2

\* C7: a failing object neither stops the loop nor raises out of the batch:
\* the identifiers are requested once each in input order, none_count counts
\* the objects that gave no result, and the results of all the others are
\* accumulated.
C7_FailureIsolated ==
    /\ InBatch =>
          /\ raised = NoError
          /\ ObjectRequests =
                 [i \in Processed |-> [endpoint |-> "object", id |-> ObjectUrl(objectIDs[i])]]
          /\ none_count =
                 Cardinality({i \in Processed :
                                 ~Yields(ResponseAt(i), args.return_full_list)})
          /\ IF args.func = Collection
             THEN /\ \A i \in Processed :
                        Yields(ResponseAt(i), TRUE) =>
                            \E k \in DOMAIN terms_dict :
                                /\ terms_dict[k].key = objectIDs[i]
                                /\ terms_dict[k].value = ResponseAt(i).terms
                  /\ \A k \in DOMAIN terms_dict :
                        \E i \in Processed :
                            /\ Yields(ResponseAt(i), TRUE)
                            /\ terms_dict[k].key = objectIDs[i]
             ELSE terms = ExpectedTerms(idx - 1)
          /\ pc = "done" => idx = Len(objectIDs) + 1
          /\ (pc = "loop" /\ idx <= Len(objectIDs)) => ENABLED LoopStep
    /\ pc = "raised" => ObjectRequests = <<>>

\* C7 (reached): a finished batch whose second object failed between two
\* objects that gave results.
C7_Witness ==
    /\ pc = "done"
    /\ Len(objectIDs) >= 3
    /\ Yields(ResponseAt(1), args.return_full_list)
    /\ ResponseAt(2).kind \in FailureKinds
    /\ Yields(ResponseAt(3), args.return_full_list)

\* C8: a run that ends with the configuration error or the path error has
\* issued no request.
C8_ErrorsBeforeNetwork ==
    raised \in {"ValueError", "FileNotFoundError"} => requests = <<>>

\* C8 (reached): a call with both destinations given and object_endpoint
\* missing has ended with the configuration error.
C8_Witness ==
    /\ pc = "raised"
    /\ raised = "ValueError"
    /\ args.save_file # None
    /\ args.save_csv # None

\* C9 (as claimed): a call that leaves save_csv or save_file unset passes
\* path validation without an error.
C9_OptionalDestinations ==
    (pc \notin {"idle", "validate"} /\ (args.save_file = None \/ args.save_csv = None))
        => raised # "TypeError"

\* C10 (as claimed): a written report states the number of identifiers, the
\* number of terms (raw mode: the sum of the lengths of the accumulated term
\* lists) or pairs produced, and none_count.
C10_ReportTotals ==
    \A path \in {DefaultReport, DataReport} :
        files[path] # <<>> =>
            files[path][1] =
                [total_objects |-> Len(objectIDs),
                 total_terms |-> IF args.func = Collection THEN SumLens(terms_dict)
                                 ELSE Len(terms),
                 failed_requests |-> none_count]

====
